---- MODULE Spec2Model ----
(***************************************************************************)
(* Model of analyzers/gpt_analyzer.py: the response cleaner, the tolerant  *)
(* JSON extraction, the three model-backed stages (generate_questions,     *)
(* analyze_with_gpt, evaluate_qa_pairs), the embedding score and the       *)
(* __main__ pipeline.                                                      *)
(*                                                                         *)
(* A text is a sequence of characters.  A character is a string: one ASCII *)
(* character, "BACKTICK" for the backtick, or the romanised name of one    *)
(* Hangul syllable ("jil", "mun" spell the key of a question).             *)
(*                                                                         *)
(* A Python value is a record [kind, text, items, keys, num, den]:         *)
(*   kind "str"   : text holds the characters                              *)
(*   kind "int"   : text holds the digits                                  *)
(*   kind "float" : the cosine num / sqrt(den), kept exact                 *)
(*   kind "list"  : items holds the elements                               *)
(*   kind "dict"  : keys[i] maps to items[i], in insertion order           *)
(*   kind "None"  : no value                                               *)
(*                                                                         *)
(* The texts of the model are built from the characters of BruteChars,     *)
(* BodyChars and the payloads below; the JSON grammar is the part of       *)
(* Python's json.loads that those characters can spell (no escapes, signs, *)
(* fractions, exponents or literals), and whitespace is " " and "\n".      *)
(***************************************************************************)
EXTENDS Integers, Sequences, FiniteSets, TLC

\* ------------------------------------------------------------------ bounds
MaxLen == 4
MaxBody == 3
MaxItems == 11
MaxCoord == 1

\* Op applied to the value of v, with v evaluated once
Bind(v, Op(_)) == CHOOSE y \in {Op(x) : x \in {v}} : TRUE

\* ---------------------------------------------------------- Python values
PyValue(k, t, i, ks) ==
  [kind |-> k, text |-> t, items |-> i, keys |-> ks, num |-> 0, den |-> 0]

PyNone == PyValue("None", <<>>, <<>>, <<>>)

PyStr(t) == PyValue("str", t, <<>>, <<>>)

PyInt(t) == PyValue("int", t, <<>>, <<>>)

PyList(i) == PyValue("list", <<>>, i, <<>>)

PyDict(ks, i) == PyValue("dict", <<>>, i, ks)

PyFloat(n, d) ==
  [kind |-> "float", text |-> <<>>, items |-> <<>>, keys |-> <<>>,
   num |-> n, den |-> d]

IsList(v) == v.kind = "list"

IsDict(v) == v.kind = "dict"

IsStr(v) == v.kind = "str"

HasKey(d, k) == \E i \in 1..Len(d.keys) : d.keys[i] = k

DictGet(d, k) == d.items[CHOOSE i \in 1..Len(d.keys) : d.keys[i] = k]

DictSet(d, k, v) ==
  IF HasKey(d, k)
  THEN [d EXCEPT !.items =
          [i \in 1..Len(d.items) |-> IF d.keys[i] = k THEN v ELSE d.items[i]]]
  ELSE [d EXCEPT !.keys = Append(d.keys, k), !.items = Append(d.items, v)]

AllZero(t) == \A i \in 1..Len(t) : t[i] = "0"

Truthy(v) ==
  CASE v.kind = "None" -> FALSE
    [] v.kind = "str" -> Len(v.text) > 0
    [] v.kind = "int" -> ~AllZero(v.text)
    [] v.kind = "float" -> v.num # 0
    [] OTHER -> Len(v.items) > 0

\* ------------------------------------------------------------- str methods
IsSpace(c) == c \in {" ", "\n"}

\* the least and the greatest element of a non-empty set of indexes
Least(S) == CHOOSE i \in S : \A j \in S : i <= j

Greatest(S) == CHOOSE i \in S : \A j \in S : j <= i

lstrip(s) ==
  LET kept == {i \in 1..Len(s) : ~IsSpace(s[i])}
  IN IF kept = {} THEN <<>> ELSE SubSeq(s, Least(kept), Len(s))

rstrip(s) ==
  LET kept == {i \in 1..Len(s) : ~IsSpace(s[i])}
  IN IF kept = {} THEN <<>> ELSE SubSeq(s, 1, Greatest(kept))

strip(s) == rstrip(lstrip(s))

startswith(s, p) == Len(s) >= Len(p) /\ SubSeq(s, 1, Len(p)) = p

LowerChar(c) ==
  CASE c = "J" -> "j" [] c = "S" -> "s" [] c = "O" -> "o" [] c = "N" -> "n"
    [] OTHER -> c

lower(s) == [i \in 1..Len(s) |-> LowerChar(s[i])]

\* s[n:] for n >= 0
DropFirst(s, n) == IF n >= Len(s) THEN <<>> ELSE SubSeq(s, n + 1, Len(s))

\* s[start:end] for start >= 0, end >= 0 (0-based, end exclusive)
Slice(s, start, end) ==
  LET e == IF end > Len(s) THEN Len(s) ELSE end
  IN IF start >= e THEN <<>> ELSE SubSeq(s, start + 1, e)

\* str.find / str.rfind of one character: 0-based index or -1
find(s, c) ==
  LET at == {i \in 1..Len(s) : s[i] = c}
  IN IF at = {} THEN -1 ELSE Least(at) - 1

rfind(s, c) ==
  LET at == {i \in 1..Len(s) : s[i] = c}
  IN IF at = {} THEN -1 ELSE Greatest(at) - 1

\* str.split(sep): left to right, non-overlapping; i is where the current
\* part starts
RECURSIVE SplitFrom(_, _, _)
SplitFrom(s, sep, i) ==
  LET at == {j \in i..(Len(s) - Len(sep) + 1) :
               SubSeq(s, j, j + Len(sep) - 1) = sep}
  IN IF at = {} THEN <<SubSeq(s, i, Len(s))>>
     ELSE <<SubSeq(s, i, Least(at) - 1)>>
          \o SplitFrom(s, sep, Least(at) + Len(sep))

split(s, sep) == SplitFrom(s, sep, 1)

\* the backtick character (a string of the module cannot hold one)
BT == "BACKTICK"

Fence == <<BT, BT, BT>>

JsonTag == <<"j", "s", "o", "n">>

\* ---------------------------------------------------------------- json.loads
IsJsonWs(c) == c \in {" ", "\n"}

IsDigit(c) == c \in {"0", "1", "2", "3", "4", "5", "6", "7", "8", "9"}

Quote == "\""

\* the first index from i on that holds no whitespace, Len(s) + 1 if none
SkipWs(s, i) ==
  LET at == {j \in i..Len(s) : ~IsJsonWs(s[j])}
  IN IF at = {} THEN Len(s) + 1 ELSE Least(at)

NoParse == [ok |-> FALSE, val |-> PyNone, next |-> 0]

Parsed(v, n) == [ok |-> TRUE, val |-> v, next |-> n]

\* a string literal whose characters start at i: up to the next quote, a
\* raw line break inside is refused
ScanString(s, i) ==
  LET at == {j \in i..Len(s) : s[j] = Quote}
  IN IF at = {} THEN NoParse
     ELSE IF \E j \in i..(Least(at) - 1) : s[j] = "\n" THEN NoParse
     ELSE Parsed(PyStr(SubSeq(s, i, Least(at) - 1)), Least(at) + 1)

ScanDigits(s, i) ==
  LET at == {j \in i..Len(s) : ~IsDigit(s[j])}
  IN IF at = {} THEN Len(s) + 1 ELSE Least(at)

ScanNumber(s, i) ==
  LET e == IF s[i] = "0" THEN i + 1 ELSE ScanDigits(s, i)
  IN Parsed(PyInt(SubSeq(s, i, e - 1)), e)

RECURSIVE ScanValue(_, _)
RECURSIVE ScanArray(_, _, _)
RECURSIVE ScanObject(_, _, _)

ScanValue(s, i) ==
  IF i > Len(s) THEN NoParse
  ELSE IF s[i] = "[" THEN
    Bind(SkipWs(s, i + 1), LAMBDA j :
      IF j <= Len(s) /\ s[j] = "]" THEN Parsed(PyList(<<>>), j + 1)
      ELSE ScanArray(s, j, <<>>))
  ELSE IF s[i] = "{" THEN
    Bind(SkipWs(s, i + 1), LAMBDA j :
      IF j <= Len(s) /\ s[j] = "}" THEN Parsed(PyDict(<<>>, <<>>), j + 1)
      ELSE ScanObject(s, j, PyDict(<<>>, <<>>)))
  ELSE IF s[i] = Quote THEN ScanString(s, i + 1)
  ELSE IF IsDigit(s[i]) THEN ScanNumber(s, i)
  ELSE NoParse

\* what follows an element r of an array: "]" ends it, "," announces the next
AfterElement(s, r, j, acc) ==
  IF j > Len(s) THEN NoParse
  ELSE IF s[j] = "]" THEN Parsed(PyList(Append(acc, r.val)), j + 1)
  ELSE IF s[j] = ","
       THEN Bind(SkipWs(s, j + 1), LAMBDA n :
              ScanArray(s, n, Append(acc, r.val)))
  ELSE NoParse

\* i is at the start of the next element
ScanArray(s, i, acc) ==
  Bind(ScanValue(s, i), LAMBDA r :
    IF ~r.ok THEN NoParse
    ELSE Bind(SkipWs(s, r.next), LAMBDA j : AfterElement(s, r, j, acc)))

\* what follows a member of an object: "}" ends it, "," announces the next
AfterMember(s, d, j) ==
  IF j > Len(s) THEN NoParse
  ELSE IF s[j] = "}" THEN Parsed(d, j + 1)
  ELSE IF s[j] = ","
       THEN Bind(SkipWs(s, j + 1), LAMBDA n : ScanObject(s, n, d))
  ELSE NoParse

\* the value of the member whose key is k, c is at the ":" after the key
MemberValue(s, k, c, acc) ==
  IF c > Len(s) \/ s[c] # ":" THEN NoParse
  ELSE Bind(ScanValue(s, SkipWs(s, c + 1)), LAMBDA r :
         IF ~r.ok THEN NoParse
         ELSE Bind(SkipWs(s, r.next), LAMBDA j :
                AfterMember(s, DictSet(acc, k.val.text, r.val), j)))

\* i is at the opening quote of the next member's key
ScanObject(s, i, acc) ==
  IF i > Len(s) \/ s[i] # Quote THEN NoParse
  ELSE Bind(ScanString(s, i + 1), LAMBDA k :
         IF ~k.ok THEN NoParse
         ELSE Bind(SkipWs(s, k.next), LAMBDA c : MemberValue(s, k, c, acc)))

\* json.loads: ok = FALSE stands for json.JSONDecodeError
json_loads(s) ==
  Bind(ScanValue(s, SkipWs(s, 1)), LAMBDA r :
    IF r.ok /\ SkipWs(s, r.next) = Len(s) + 1 THEN r ELSE NoParse)

\* ---------------------------------------------------------------- json.dumps
RECURSIVE json_dumps(_)
RECURSIVE DumpItems(_, _)
RECURSIVE DumpMembers(_, _)

json_dumps(v) ==
  CASE v.kind = "str" -> <<Quote>> \o v.text \o <<Quote>>
    [] v.kind = "int" -> v.text
    [] v.kind = "list" -> <<"[">> \o DumpItems(v, 1) \o <<"]">>
    [] v.kind = "dict" -> <<"{">> \o DumpMembers(v, 1) \o <<"}">>
    [] OTHER -> <<"n", "u", "l", "l">>

DumpItems(v, i) ==
  IF i > Len(v.items) THEN <<>>
  ELSE json_dumps(v.items[i])
       \o (IF i < Len(v.items) THEN <<",", " ">> ELSE <<>>)
       \o DumpItems(v, i + 1)

DumpMembers(v, i) ==
  IF i > Len(v.items) THEN <<>>
  ELSE <<Quote>> \o v.keys[i] \o <<Quote, ":", " ">> \o json_dumps(v.items[i])
       \o (IF i < Len(v.items) THEN <<",", " ">> ELSE <<>>)
       \o DumpMembers(v, i + 1)

\* ---------------------------------------------------------- response cleaner
\* if output.lower().startswith("json"): output = output[4:].strip()
strip_json_tag(output) ==
  IF startswith(lower(output), JsonTag) THEN strip(DropFirst(output, 4))
  ELSE output

\* if output.startswith("```"): the text between the first two fences
strip_fence(output) ==
  IF startswith(output, Fence)
  THEN Bind(split(output, Fence), LAMBDA parts :
         IF Len(parts) >= 3 THEN strip(parts[2]) ELSE output)
  ELSE output

\* the tag cut off without the strip that follows
clean_gpt_output_nostrip(output) ==
  Bind(strip_fence(strip(output)), LAMBDA o :
    IF startswith(lower(o), JsonTag) THEN DropFirst(o, 4) ELSE o)

clean_gpt_output(output) == strip_json_tag(strip_fence(strip(output)))

\* ------------------------------------------------------- results of a call
\* raised = "none": the call returned value; otherwise the exception class
\* that left the call.  invoked counts the chain.run calls it made.
Return(v, n) == [raised |-> "none", value |-> v, invoked |-> n]

Raise(e, n) == [raised |-> e, value |-> PyNone, invoked |-> n]

\* json.JSONDecodeError is a subclass of ValueError
Caught(raised, classes) ==
  \/ raised \in classes
  \/ raised = "JSONDecodeError" /\ "ValueError" \in classes

\* ------------------------------------------------------------------- keys
K_error == <<"e", "r", "r", "o", "r">>

K_raw_response ==
  <<"r", "a", "w", "_", "r", "e", "s", "p", "o", "n", "s", "e">>

K_question == <<"jil", "mun">>

K_answer == <<"dap", "byeon">>

K_embedding_score ==
  <<"e", "m", "b", "e", "d", "d", "i", "n", "g", "_", "s", "c", "o", "r", "e">>

\* {"error": <message>, "raw_response": <text>}; the message is one atom
\* naming the f-string, the exception's own text is left out
ErrorObject(msg, raw) ==
  PyDict(<<K_error, K_raw_response>>, <<PyStr(<<msg>>), PyStr(raw)>>)

\* -------------------------------------------------------- parse_gpt_response
\* the try block from start = cleaned_text.find("[") on
extract_array(cleaned_text, response_text) ==
  IF find(cleaned_text, "[") = -1 \/ rfind(cleaned_text, "]") + 1 = -1
  THEN Raise("ValueError", 0)
  ELSE Bind(json_loads(Slice(cleaned_text, find(cleaned_text, "["),
                             rfind(cleaned_text, "]") + 1)),
         LAMBDA parsed_response :
           IF ~parsed_response.ok THEN Raise("JSONDecodeError", 0)
           ELSE IF ~Truthy(parsed_response.val)
                THEN Return(ErrorObject("empty array", response_text), 0)
           ELSE Return(parsed_response.val, 0))

\* the try block
parse_try(response_text) ==
  Bind(clean_gpt_output(response_text), LAMBDA cleaned_text :
    IF Len(cleaned_text) = 0
    THEN Return(ErrorObject("empty response", response_text), 0)
    ELSE extract_array(cleaned_text, response_text))

\* an except clause that names json.JSONDecodeError only
parse_except_json_only == {"JSONDecodeError"}

\* the except clause
parse_except == {"JSONDecodeError", "ValueError"}

parse_gpt_response(response_text) ==
  Bind(parse_try(response_text), LAMBDA r :
    IF Caught(r.raised, parse_except)
    THEN Return(ErrorObject("cannot convert", response_text), 0)
    ELSE r)

\* --------------------------------------------------- compute_embedding_score
\* an embedding, cut down to two coordinates
Coords == (0 - MaxCoord)..MaxCoord

Vectors == Coords \X Coords

Dot(a, b) == a[1] * b[1] + a[2] * b[2]

\* util.pytorch_cos_sim: a.b / (|a| |b|), kept as num / sqrt(den)
pytorch_cos_sim(a, b) == PyFloat(Dot(a, b), Dot(a, a) * Dot(b, b))

\* q_emb, doc_emb: what embedding_model.encode gave for the two texts
compute_embedding_score(q_emb, doc_emb) == pytorch_cos_sim(q_emb, doc_emb)

\* ---------------------------------------------------------- the credential
\* os.getenv: set = FALSE is None
ApiKeys ==
  {[set |-> FALSE, value |-> <<>>], [set |-> TRUE, value |-> <<>>],
   [set |-> TRUE, value |-> <<"s", "k">>]}

\* not api_key
credential_missing(api_key) == ~api_key.set \/ Len(api_key.value) = 0

\* ---------------------------------------------------------- analyze_with_gpt
\* relevant_docs given as text is parsed
normalize_docs(relevant_docs) ==
  IF IsStr(relevant_docs)
  THEN Bind(json_loads(relevant_docs.text), LAMBDA p :
         IF p.ok THEN Return(p.val, 0) ELSE Raise("ValueError", 0))
  ELSE Return(relevant_docs, 0)

\* the elements a for loop over v visits
Elements(v) ==
  CASE v.kind = "list" -> v.items
    [] v.kind = "dict" -> [i \in 1..Len(v.keys) |-> PyStr(v.keys[i])]
    [] v.kind = "str" -> [i \in 1..Len(v.text) |-> PyStr(<<v.text[i]>>)]
    [] OTHER -> <<>>

Iterable(v) == v.kind \in {"list", "dict", "str"}

\* [{"질문": doc["질문"]} for doc in relevant_docs]
RECURSIVE QuestionsFrom(_, _, _)
QuestionsFrom(els, i, acc) ==
  IF i > Len(els) THEN Return(PyList(acc), 0)
  ELSE IF ~IsDict(els[i]) THEN Raise("TypeError", 0)
  ELSE IF ~HasKey(els[i], K_question) THEN Raise("KeyError", 0)
  ELSE QuestionsFrom(els, i + 1,
         Append(acc, PyDict(<<K_question>>,
                            <<DictGet(els[i], K_question)>>)))

extract_questions(docs) ==
  IF ~Iterable(docs) THEN Raise("TypeError", 0)
  ELSE Bind(Elements(docs), LAMBDA els : QuestionsFrom(els, 1, <<>>))

\* the loop over qa_pairs: embs.q[i] and embs.doc are what encode gave for
\* the i-th question and the document; embs.lenient tells whether encode
\* accepts a question that is not text (the library decides)
RECURSIVE ScoreFrom(_, _, _, _)
ScoreFrom(items, embs, i, acc) ==
  IF i > Len(items) THEN Return(PyList(acc), 1)
  ELSE IF ~IsDict(items[i]) THEN Raise("AttributeError", 1)
  ELSE
    LET question_text ==
          IF HasKey(items[i], K_question)
          THEN DictGet(items[i], K_question) ELSE PyStr(<<>>)
        score == compute_embedding_score(embs.q[i], embs.doc)
    IN IF ~IsStr(question_text) /\ ~embs.lenient
       THEN Raise("EncodeError", 1)
       ELSE ScoreFrom(items, embs, i + 1,
              Append(acc, DictSet(items[i], K_embedding_score, score)))

\* the credential tested after relevant_docs has been examined
analyze_request_late_check(api_key, relevant_docs, result) ==
  Bind(normalize_docs(relevant_docs), LAMBDA docs :
    IF docs.raised # "none" THEN docs
    ELSE Bind(extract_questions(docs.value), LAMBDA questions :
           IF questions.raised # "none" THEN questions
           ELSE IF credential_missing(api_key) THEN Raise("OpenAIError", 0)
           ELSE Return(parse_gpt_response(result).value, 1)))

\* up to qa_pairs = parse_gpt_response(result): the value is qa_pairs
analyze_request(api_key, relevant_docs, result) ==
  IF credential_missing(api_key) THEN Raise("OpenAIError", 0)
  ELSE Bind(normalize_docs(relevant_docs), LAMBDA docs :
         IF docs.raised # "none" THEN docs
         ELSE Bind(extract_questions(docs.value), LAMBDA questions :
                IF questions.raised # "none" THEN questions
                ELSE Return(parse_gpt_response(result).value, 1)))

\* from if isinstance(qa_pairs, list) to the return
attach_scores(request, embs) ==
  IF request.raised # "none" THEN request
  ELSE IF IsList(request.value)
       THEN ScoreFrom(request.value.items, embs, 1, <<>>)
  ELSE request

analyze_with_gpt(api_key, relevant_docs, result, embs) ==
  Bind(analyze_request(api_key, relevant_docs, result), LAMBDA request :
    attach_scores(request, embs))

\* -------------------------------------------------------- generate_questions
NumQuestions == 10

\* the length test loosened to "at least ten"
questions_ok_atleast(questions) ==
  IsList(questions) /\ Len(questions.items) >= NumQuestions

questions_ok(questions) ==
  IsList(questions) /\ Len(questions.items) = NumQuestions

\* the try block and its except clause
load_questions(cleaned_result) ==
  Bind(json_loads(cleaned_result), LAMBDA questions :
    Bind(IF ~questions.ok THEN Raise("JSONDecodeError", 1)
         ELSE IF ~questions_ok(questions.val) THEN Raise("ValueError", 1)
         ELSE Return(questions.val, 1),
      LAMBDA try :
        IF Caught(try.raised, {"JSONDecodeError", "ValueError"})
        THEN Return(ErrorObject("cannot convert questions", cleaned_result),
                    1)
        ELSE try))

\* result: the text chain.run returned.  ChatOpenAI is built without an
\* api_key argument, the client itself refuses to be built without a key
generate_questions(api_key, result) ==
  IF credential_missing(api_key) THEN Raise("OpenAIError", 0)
  ELSE Bind(clean_gpt_output(result), LAMBDA cleaned_result :
         load_questions(cleaned_result))

\* --------------------------------------------------------- evaluate_qa_pairs
evaluate_qa_pairs(api_key, qa_pairs, result) ==
  IF credential_missing(api_key) THEN Raise("OpenAIError", 0)
  ELSE Bind(json_loads(clean_gpt_output(result)), LAMBDA evaluation :
         IF evaluation.ok THEN Return(evaluation.val, 1)
         ELSE Return(ErrorObject("cannot convert evaluation", result), 1))

\* ------------------------------------------------------------------ inputs
\* all texts over a character set, up to a length
RECURSIVE TextsUpTo(_, _)
TextsUpTo(chars, n) ==
  IF n = 0 THEN {<<>>}
  ELSE LET shorter == TextsUpTo(chars, n - 1)
       IN shorter \cup {Append(t, c) : t \in shorter, c \in chars}

BruteChars == {"[", "]", "1", ",", " ", BT}

BruteTexts == TextsUpTo(BruteChars, MaxLen)

ShortTexts == TextsUpTo(BruteChars, MaxBody)

K_evaluations == <<"e", "v", "a", "l", "u", "a", "t", "i", "o", "n", "s">>

K_score == <<"s", "c", "o", "r", "e">>

K_overall_score ==
  <<"o", "v", "e", "r", "a", "l", "l", "_", "s", "c", "o", "r", "e">>

K_relevance == <<"gwan", "ryeon", "seong">>

K_accuracy == <<"jeong", "hwak", "seong">>

K_completeness == <<"wan", "jeon", "seong">>

K_clarity == <<"myeong", "ryo", "seong">>

SubScoreKeys == {K_relevance, K_accuracy, K_completeness, K_clarity}

One == PyInt(<<"1">>)

AQuestion == PyStr(<<"q">>)

AnAnswer == PyStr(<<"a">>)

Repeat(v, n) == [i \in 1..n |-> v]

QAPair == PyDict(<<K_question, K_answer>>, <<AQuestion, AnAnswer>>)

EvaluationItem ==
  PyDict(<<K_question, K_answer, K_relevance, K_accuracy, K_completeness,
           K_clarity, K_score>>,
         <<AQuestion, AnAnswer, One, One, One, One, One>>)

EvaluationValue ==
  PyDict(<<K_evaluations, K_overall_score>>, <<PyList(<<EvaluationItem>>), One>>)

\* what a model may answer when asked for questions, answers or grades
QuestionPayloads == {PyList(Repeat(AQuestion, n)) : n \in 0..MaxItems}

AnswerPayloads ==
  {PyList(<<QAPair>>),
   PyList(<<PyDict(<<K_answer>>, <<AnAnswer>>)>>),
   PyList(<<PyDict(<<K_question>>, <<One>>)>>),
   PyList(<<One>>), PyList(<<QAPair, AQuestion>>)}

EvaluationPayloads ==
  {EvaluationValue,
   PyDict(<<K_evaluations>>, <<PyList(<<EvaluationItem>>)>>),
   PyDict(<<K_evaluations, K_overall_score>>,
          <<PyList(<<PyDict(<<K_question, K_score>>, <<AQuestion, One>>)>>),
            One>>),
   One, AQuestion}

Payloads == QuestionPayloads \cup AnswerPayloads \cup EvaluationPayloads

\* the ways a model dresses its answer
Dressed(t) ==
  {t,
   Fence \o JsonTag \o <<"\n">> \o t \o <<"\n">> \o Fence,
   Fence \o <<"\n">> \o t \o <<"\n">> \o Fence,
   JsonTag \o <<"\n">> \o t,
   <<"J", "S", "O", "N", " ">> \o t,
   <<" ">> \o t \o <<"\n">>,
   <<"x", " ">> \o t \o <<" ", "x">>,
   Fence \o JsonTag \o <<"\n">> \o t \o <<"\n">> \o Fence \o <<"\n", "x">>}

DressedTexts == UNION {Dressed(json_dumps(v)) : v \in Payloads}

Texts == BruteTexts \cup DressedTexts

AnalyzeTexts ==
  ShortTexts
  \cup Dressed(json_dumps(PyList(<<QAPair>>)))
  \cup {json_dumps(v) : v \in Payloads}

\* a body in one code fence with a json tag, optionally inside whitespace
BodyChars == {"[", "]", "1", " ", "\n", "j"}

Bodies ==
  TextsUpTo(BodyChars, MaxBody)
  \cup {JsonTag, JsonTag \o <<"[", "1", "]">>, <<" ">> \o JsonTag,
        <<"J", "S", "O", "N", "\n", "1">>}
  \cup {json_dumps(v) : v \in AnswerPayloads}

Margins == {<<>>, <<" ">>, <<"\n", " ">>}

FencedTexts ==
  {pre \o Fence \o JsonTag \o <<"\n">> \o b \o <<"\n">> \o Fence \o post :
     pre \in Margins, b \in Bodies, post \in Margins}

CleanTexts == Texts \cup FencedTexts

DocsInputs ==
  LET good == PyList(<<PyDict(<<K_question>>, <<AQuestion>>)>>)
      nokey == PyList(<<PyDict(<<K_answer>>, <<AnAnswer>>)>>)
      mixed == PyList(<<PyDict(<<K_question>>, <<AQuestion>>),
                        PyDict(<<K_answer>>, <<AnAnswer>>)>>)
      bare == PyList(<<AQuestion>>)
  IN {good, nokey, mixed, bare, PyList(<<>>), PyDict(<<>>, <<>>),
      PyStr(json_dumps(good)), PyStr(json_dumps(nokey)),
      PyStr(json_dumps(One)), PyStr(<<"x", "[">>), PyStr(<<>>)}

\* what encode may give for the questions of n pairs and the document
EmbInputs(n) ==
  IF n = 0
  THEN {[doc |-> <<0, 0>>, q |-> <<>>, lenient |-> TRUE]}
  ELSE [doc : Vectors, q : [1..n -> Vectors], lenient : BOOLEAN]

\* the number of questions analyze_with_gpt has encoded when it ends: none
\* when it raises before chain.run, else the items of the parsed list up to
\* the first that is not a dict
RECURSIVE LeadingDicts(_, _)
LeadingDicts(items, i) ==
  IF i > Len(items) \/ ~IsDict(items[i]) THEN i - 1
  ELSE LeadingDicts(items, i + 1)

EncodeCalls(request) ==
  IF request.raised = "none" /\ IsList(request.value)
  THEN LeadingDicts(request.value.items, 1) ELSE 0

\* --------------------------------------------------------------------- state
\* api_key: os.getenv("OPENAI_API_KEY")
\* name: __name__, "__main__" runs the pipeline, any other value is an import
\* call: the call an importer made, with its outcome
\* pc: position of the __main__ block
\* questions, qa_pairs, evaluation: the variables of the __main__ block
\* file: the content of Result.json, PyNone while not written
\* log: the stages that ran chain.run, in order
\* raised: the exception that ended the __main__ block, or "none"
VARIABLES api_key, name, call, pc, questions, qa_pairs, evaluation, file, log, raised

vars ==
  <<api_key, name, call, pc, questions, qa_pairs, evaluation, file, log,
    raised>>

NoEmbs == [doc |-> <<0, 0>>, q |-> <<>>, lenient |-> TRUE]

NoCall ==
  [fn |-> "none", text |-> <<>>, docs |-> PyNone, embs |-> NoEmbs,
   outcome |-> Return(PyNone, 0)]

Init ==
  /\ api_key \in ApiKeys
  /\ name \in {"__main__", "analyzers.gpt_analyzer"}
  /\ call = NoCall
  /\ pc = "start"
  /\ questions = PyNone
  /\ qa_pairs = PyNone
  /\ evaluation = PyNone
  /\ file = PyNone
  /\ log = <<>>
  /\ raised = "none"

MainVars == <<pc, questions, qa_pairs, evaluation, file, log, raised>>

\* ------------------------------------------------- calls made by an importer
\* The functions keep no state between calls, so one call per run shows all
\* they can do.
CallClean ==
  /\ name # "__main__" /\ call.fn = "none"
  /\ \E output \in CleanTexts :
       call' = [NoCall EXCEPT !.fn = "clean_gpt_output", !.text = output,
                  !.outcome = Return(PyStr(clean_gpt_output(output)), 0)]
  /\ UNCHANGED <<api_key, name, MainVars>>

CallParse ==
  /\ name # "__main__" /\ call.fn = "none"
  /\ \E response_text \in Texts :
       call' = [NoCall EXCEPT !.fn = "parse_gpt_response",
                  !.text = response_text,
                  !.outcome = parse_gpt_response(response_text)]
  /\ UNCHANGED <<api_key, name, MainVars>>

CallEmbedding ==
  /\ name # "__main__" /\ call.fn = "none"
  /\ \E q_emb \in Vectors, doc_emb \in Vectors :
       call' = [NoCall EXCEPT !.fn = "compute_embedding_score",
                  !.embs = [doc |-> doc_emb, q |-> <<q_emb>>,
                            lenient |-> TRUE],
                  !.outcome =
                     Return(compute_embedding_score(q_emb, doc_emb), 0)]
  /\ UNCHANGED <<api_key, name, MainVars>>

CallGenerate ==
  /\ name # "__main__" /\ call.fn = "none"
  /\ \E result \in Texts :
       call' = [NoCall EXCEPT !.fn = "generate_questions", !.text = result,
                  !.outcome = generate_questions(api_key, result)]
  /\ UNCHANGED <<api_key, name, MainVars>>

CallAnalyze ==
  /\ name # "__main__" /\ call.fn = "none"
  /\ \E relevant_docs \in DocsInputs, result \in AnalyzeTexts :
       \E request \in {analyze_request(api_key, relevant_docs, result)} :
          \E embs \in EmbInputs(EncodeCalls(request)) :
            call' = [NoCall EXCEPT !.fn = "analyze_with_gpt", !.text = result,
                       !.docs = relevant_docs, !.embs = embs,
                       !.outcome = attach_scores(request, embs)]
  /\ UNCHANGED <<api_key, name, MainVars>>

CallEvaluate ==
  /\ name # "__main__" /\ call.fn = "none"
  /\ \E pairs \in {PyList(<<QAPair>>)}, result \in Texts :
       call' = [NoCall EXCEPT !.fn = "evaluate_qa_pairs", !.text = result,
                  !.docs = pairs,
                  !.outcome = evaluate_qa_pairs(api_key, pairs, result)]
  /\ UNCHANGED <<api_key, name, MainVars>>


\* ------------------------------------------------------- the __main__ block
MainQuestionTexts ==
  LET ten == json_dumps(PyList(Repeat(AQuestion, NumQuestions)))
      nine == json_dumps(PyList(Repeat(AQuestion, NumQuestions - 1)))
  IN {ten, Fence \o JsonTag \o <<"\n">> \o ten \o <<"\n">> \o Fence,
      <<"x", " ">> \o ten, nine, <<"[", "]">>, <<"x">>}

MainAnswerTexts ==
  LET one == json_dumps(PyList(<<QAPair>>))
  IN {one, Fence \o JsonTag \o <<"\n">> \o one \o <<"\n">> \o Fence,
      <<"x", " ">> \o one, json_dumps(PyList(<<QAPair, QAPair>>)),
      json_dumps(PyList(<<One>>)), <<"[", "]">>, <<"x">>, <<>>}

MainEvaluationTexts ==
  LET good == json_dumps(EvaluationValue)
  IN {good, Fence \o JsonTag \o <<"\n">> \o good \o <<"\n">> \o Fence,
      <<"x", " ">> \o good, <<"1">>, <<"[", "1", "]">>, <<"x">>}

\* questions = generate_questions(document_content)
MainGenerate ==
  /\ name = "__main__" /\ pc = "start"
  /\ \E result \in MainQuestionTexts :
       \E r \in {generate_questions(api_key, result)} :
          /\ log' = IF r.invoked > 0
                    THEN Append(log, "generate_questions") ELSE log
          /\ raised' = r.raised
          /\ questions' = r.value
          /\ pc' = IF r.raised = "none" THEN "generated" ELSE "crashed"
  /\ UNCHANGED <<api_key, name, call, qa_pairs, evaluation, file>>

\* if isinstance(questions, list) and len(questions) == 10
questions_accepted ==
  IsList(questions) /\ Len(questions.items) = NumQuestions

\* the else branch
MainReject ==
  /\ name = "__main__" /\ pc = "generated"
  /\ ~questions_accepted
  /\ pc' = "rejected"
  /\ UNCHANGED <<api_key, name, call, questions, qa_pairs, evaluation, file,
                 log, raised>>

\* qa_pairs = analyze_with_gpt(file_type, questions_list, document_content)
MainAnalyze ==
  /\ name = "__main__" /\ pc = "generated"
  /\ questions_accepted
  /\ \E questions_list \in
          {PyList([i \in 1..Len(questions.items) |->
                     PyDict(<<K_question>>, <<questions.items[i]>>)])} :
        \E result \in MainAnswerTexts :
          \E request \in {analyze_request(api_key, questions_list, result)} :
            \E embs \in EmbInputs(EncodeCalls(request)) :
              \E r \in {attach_scores(request, embs)} :
               /\ log' = IF r.invoked > 0
                         THEN Append(log, "analyze_with_gpt") ELSE log
               /\ raised' = r.raised
               /\ qa_pairs' = r.value
               /\ pc' = IF r.raised = "none" THEN "analyzed" ELSE "crashed"
  /\ UNCHANGED <<api_key, name, call, questions, evaluation, file>>

\* evaluation = evaluate_qa_pairs(qa_pairs)
MainEvaluate ==
  /\ name = "__main__" /\ pc = "analyzed"
  /\ \E result \in MainEvaluationTexts :
       \E r \in {evaluate_qa_pairs(api_key, qa_pairs, result)} :
          /\ log' = IF r.invoked > 0
                    THEN Append(log, "evaluate_qa_pairs") ELSE log
          /\ raised' = r.raised
          /\ evaluation' = r.value
          /\ pc' = IF r.raised = "none" THEN "evaluated" ELSE "crashed"
  /\ UNCHANGED <<api_key, name, call, questions, qa_pairs, file>>

K_qa_pairs == <<"q", "a", "_", "p", "a", "i", "r", "s">>

K_evaluation == <<"e", "v", "a", "l", "u", "a", "t", "i", "o", "n">>

\* json.dump(final_result, f)
MainWrite ==
  /\ name = "__main__" /\ pc = "evaluated"
  /\ file' = PyDict(<<K_qa_pairs, K_evaluation>>, <<qa_pairs, evaluation>>)
  /\ pc' = "written"
  /\ UNCHANGED <<api_key, name, call, questions, qa_pairs, evaluation, log,
                 raised>>

Next ==
  \/ CallClean
  \/ CallParse
  \/ CallEmbedding
  \/ CallGenerate
  \/ CallAnalyze
  \/ CallEvaluate
  \/ MainGenerate
  \/ MainReject
  \/ MainAnalyze
  \/ MainEvaluate
  \/ MainWrite

Spec == Init /\ [][Next]_vars


\* ================================================================== claims
IsErrorObject(v) ==
  /\ IsDict(v)
  /\ {v.keys[i] : i \in 1..Len(v.keys)} = {K_error, K_raw_response}

RawResponse(v) == DictGet(v, K_raw_response)

IsNumber(v) == v.kind \in {"int", "float"}

InUnitInterval(f) == f.kind = "float" /\ f.num >= 0 /\ f.num * f.num <= f.den

IsQAPair(v) ==
  /\ IsDict(v)
  /\ HasKey(v, K_question) /\ IsStr(DictGet(v, K_question))
  /\ HasKey(v, K_answer) /\ IsStr(DictGet(v, K_answer))
  /\ HasKey(v, K_embedding_score)
  /\ DictGet(v, K_embedding_score).kind = "float"

IsQAPairs(v) ==
  IsList(v) /\ \A i \in 1..Len(v.items) : IsQAPair(v.items[i])

IsEvaluationItem(v) ==
  /\ IsDict(v)
  /\ \A k \in SubScoreKeys : HasKey(v, k) /\ DictGet(v, k).kind = "int"
  /\ HasKey(v, K_score) /\ IsNumber(DictGet(v, K_score))

IsEvaluation(v) ==
  /\ IsDict(v)
  /\ HasKey(v, K_evaluations) /\ IsList(DictGet(v, K_evaluations))
  /\ \A i \in 1..Len(DictGet(v, K_evaluations).items) :
       IsEvaluationItem(DictGet(v, K_evaluations).items[i])
  /\ HasKey(v, K_overall_score) /\ IsNumber(DictGet(v, K_overall_score))

KeyPresent == api_key.set /\ api_key.value # <<>>

Called(fn) == call.fn = fn

ParsesAsTenItemArray(t) ==
  LET p == json_loads(t)
  IN p.ok /\ IsList(p.val) /\ Len(p.val.items) = 10

\* C1: generate_questions returns a list exactly when the cleaned model
\* output parses as a JSON array of exactly 10 items; for every other output
\* it returns an error object with the keys "error" and "raw_response".
C1_ListIffTenItems ==
  (Called("generate_questions") /\ KeyPresent) =>
    LET v == call.outcome.value
        cleaned == clean_gpt_output(call.text)
    IN /\ call.outcome.raised = "none"
       /\ IsList(v) <=> ParsesAsTenItemArray(cleaned)
       /\ IsList(v) => v = json_loads(cleaned).val
       /\ ~IsList(v) => IsErrorObject(v)

\* a fenced array of ten questions was accepted
C1_Witness ==
  /\ Called("generate_questions")
  /\ IsList(call.outcome.value)
  /\ Len(call.outcome.value.items) = 10
  /\ startswith(call.text, Fence)

\* the text between the first "[" and the last "]", both included
Bracketed(t) ==
  LET opens == {i \in 1..Len(t) : t[i] = "["}
      closes == {i \in 1..Len(t) : t[i] = "]"}
  IN IF opens = {} \/ closes = {} \/ Greatest(closes) < Least(opens)
     THEN <<>>
     ELSE SubSeq(t, Least(opens), Greatest(closes))

\* C2: for every text parse_gpt_response does not raise and returns either a
\* non-empty JSON array parsed from the first "[" to the last "]" of the
\* cleaned text, or an error object whose "raw_response" is the input text.
C2_ArrayOrErrorObject ==
  Called("parse_gpt_response") =>
    LET v == call.outcome.value
        between == Bracketed(clean_gpt_output(call.text))
    IN /\ call.outcome.raised = "none"
       /\ \/ /\ IsList(v) /\ Len(v.items) > 0
             /\ json_loads(between).ok /\ v = json_loads(between).val
          \/ /\ IsErrorObject(v)
             /\ RawResponse(v) = PyStr(call.text)

\* no "[" in the text: the ValueError of the try block was recovered
C2_Witness ==
  /\ Called("parse_gpt_response")
  /\ Len(strip(call.text)) > 0
  /\ \A i \in 1..Len(call.text) : call.text[i] # "["
  /\ IsErrorObject(call.outcome.value)

Stages == {"generate_questions", "analyze_with_gpt", "evaluate_qa_pairs"}

Invocations(stage) == Cardinality({i \in 1..Len(log) : log[i] = stage})

\* C3: in one run of the pipeline each stage invokes the model at most once,
\* and once a stage has produced an error object no later stage invokes the
\* model and the output file is not written.
C3_FailFast ==
  /\ \A stage \in Stages : Invocations(stage) <= 1
  /\ IsErrorObject(questions) =>
       /\ Invocations("analyze_with_gpt") = 0
       /\ Invocations("evaluate_qa_pairs") = 0
       /\ file = PyNone
  /\ IsErrorObject(qa_pairs) =>
       /\ Invocations("evaluate_qa_pairs") = 0
       /\ file = PyNone
  /\ IsErrorObject(evaluation) => file = PyNone

\* C4: whenever the output file is written, "qa_pairs" is a sequence of QA
\* pairs that all carry an "embedding_score" and "evaluation" is an
\* Evaluation; an error object is written in neither field.
C4_FinalResultShape ==
  file # PyNone =>
    /\ IsQAPairs(DictGet(file, K_qa_pairs))
    /\ IsEvaluation(DictGet(file, K_evaluation))

WellFormedDocs(d) ==
  LET v == IF IsStr(d) THEN json_loads(d.text).val ELSE d
  IN /\ IsList(v)
     /\ \A i \in 1..Len(v.items) :
          IsDict(v.items[i]) /\ HasKey(v.items[i], K_question)

\* the model output is not what the stage asked for
Malformed(fn, text) ==
  CASE fn = "generate_questions" ->
         ~ParsesAsTenItemArray(clean_gpt_output(text))
    [] fn = "analyze_with_gpt" ->
         LET between == json_loads(Bracketed(clean_gpt_output(text)))
         IN \/ ~between.ok
            \/ ~IsList(between.val)
            \/ between.val.items = <<>>
            \/ \E i \in 1..Len(between.val.items) :
                 ~IsDict(between.val.items[i])
    [] fn = "evaluate_qa_pairs" ->
         LET p == json_loads(clean_gpt_output(text))
         IN ~p.ok \/ ~IsEvaluation(p.val)
    [] OTHER -> FALSE

\* C5: in each of the three stages every malformed model output is recovered
\* into an error object whose "raw_response" is the raw response text as
\* received; no malformed output makes a stage raise.
C5_MalformedRecovered ==
  (/\ call.fn \in Stages
   /\ KeyPresent
   /\ Called("analyze_with_gpt") => WellFormedDocs(call.docs)
   /\ Malformed(call.fn, call.text)) =>
    /\ call.outcome.raised = "none"
    /\ IsErrorObject(call.outcome.value)
    /\ RawResponse(call.outcome.value) = PyStr(call.text)

\* "```json\n" + body + "\n```" inside optional whitespace, body without a
\* backtick
FencedJsonOpen == Fence \o JsonTag \o <<"\n">>

FencedJsonClose == <<"\n">> \o Fence

IsFencedJson(t) ==
  LET u == strip(t)
  IN /\ Len(u) >= Len(FencedJsonOpen) + Len(FencedJsonClose)
     /\ SubSeq(u, 1, Len(FencedJsonOpen)) = FencedJsonOpen
     /\ SubSeq(u, Len(u) - Len(FencedJsonClose) + 1, Len(u)) = FencedJsonClose
     /\ \A i \in (Len(FencedJsonOpen) + 1)..(Len(u) - Len(FencedJsonClose)) :
          u[i] # BT

FencedBody(t) ==
  LET u == strip(t)
  IN SubSeq(u, Len(FencedJsonOpen) + 1, Len(u) - Len(FencedJsonClose))

\* the same text without its leading and trailing whitespace
Trimmed(t) ==
  LET kept == {i \in 1..Len(t) : t[i] \notin {" ", "\n"}}
  IN IF kept = {} THEN <<>> ELSE SubSeq(t, Least(kept), Greatest(kept))

\* C6: clean_gpt_output of a backtick-free body wrapped in one code fence
\* with a json tag returns the body without its leading and trailing
\* whitespace and nothing else changed.
C6_FencedBodyReturned ==
  (Called("clean_gpt_output") /\ IsFencedJson(call.text)) =>
    call.outcome.value = PyStr(Trimmed(FencedBody(call.text)))

\* a body that itself starts with "json" keeps that word
C6_Witness ==
  /\ Called("clean_gpt_output")
  /\ IsFencedJson(call.text)
  /\ startswith(FencedBody(call.text), JsonTag)
  /\ Len(FencedBody(call.text)) > Len(JsonTag)
  /\ call.text # strip(call.text)

MalformedDocs(d) ==
  \/ IsStr(d) /\ ~json_loads(d.text).ok
  \/ /\ IsList(d)
     /\ \E i \in 1..Len(d.items) :
          ~(IsDict(d.items[i]) /\ HasKey(d.items[i], K_question))

\* C7: every malformed relevant_docs (text that is not valid JSON, a list
\* with an element that lacks the question field) makes analyze_with_gpt
\* raise a value error before the model is invoked.
C7_MalformedDocsValueError ==
  (Called("analyze_with_gpt") /\ KeyPresent /\ MalformedDocs(call.docs)) =>
    /\ call.outcome.raised = "ValueError"
    /\ call.outcome.invoked = 0

\* C8: without an API key analyze_with_gpt and evaluate_qa_pairs raise the
\* credential error before the model is invoked and before the other
\* arguments are examined.
C8_CredentialFirst ==
  (call.fn \in {"analyze_with_gpt", "evaluate_qa_pairs"} /\ ~KeyPresent) =>
    /\ call.outcome.raised = "OpenAIError"
    /\ call.outcome.invoked = 0

\* no key and a malformed relevant_docs: the credential error wins
C8_Witness ==
  /\ Called("analyze_with_gpt")
  /\ ~KeyPresent
  /\ MalformedDocs(call.docs)
  /\ call.outcome.raised = "OpenAIError"

\* C9: evaluate_qa_pairs returns either an Evaluation that matches the fixed
\* schema or an error object carrying the raw response text, never any other
\* value.
C9_EvaluationOrErrorObject ==
  (Called("evaluate_qa_pairs") /\ call.outcome.raised = "none") =>
    \/ IsEvaluation(call.outcome.value)
    \/ /\ IsErrorObject(call.outcome.value)
       /\ RawResponse(call.outcome.value) = PyStr(call.text)

\* C10: the embedding_score that compute_embedding_score returns and that
\* analyze_with_gpt attaches to each QA pair is within [0,1].
C10_ScoreInUnitInterval ==
  /\ (Called("compute_embedding_score") =>
        InUnitInterval(call.outcome.value))
  /\ (Called("analyze_with_gpt") /\ IsList(call.outcome.value)) =>
        \A i \in 1..Len(call.outcome.value.items) :
          InUnitInterval(DictGet(call.outcome.value.items[i],
                                 K_embedding_score))

====
